---- MODULE Spec2Model ----
(***************************************************************************)
(* Model of the tic-tac-toe backend: the N x N server of main.go           *)
(* (playHandler, aiMove, checkWinner, the heuristic and the minimax        *)
(* selector) and the fixed 3 x 3 server (the variant without a boardSize   *)
(* field).  Boards are functions from cell indices 0..len-1 to cell        *)
(* strings, so that every index is the index the Go code uses.             *)
(***************************************************************************)
EXTENDS Integers, Sequences, FiniteSets, TLC

VARIABLES
    build,   \* what int(math.Inf(1)) evaluates to in this build of the server
    pc,      \* "idle" | "pending" | "done": where the current request stands
    req,     \* the request being served
    resp,    \* the response written for it
    trace,   \* which parts of the handler ran for it, and the selector's result
    out      \* results of the pure functions applied on their own

vars == <<build, pc, req, resp, trace, out>>

\* ---------------------------------------------------------------- constants

PLAYER_X == "X"
AI_O == "O"
EMPTY == ""

Cells == {EMPTY, PLAYER_X, AI_O}

\* Go's int, modelled at 32 bits (GOARCH=386, arm); at 64 bits the same
\* behaviours occur with 2^32 in the place of 2^16.
MaxInt == 2147483647
MinInt == -MaxInt - 1

\* int(math.Inf(1)): the Go specification leaves the value of an out-of-range
\* float-to-int conversion to the implementation.  x86 (CVTTSD2SI) yields the
\* "integer indefinite" value MinInt, ARM (FCVTZS) saturates to MaxInt.
InfConversions == {MinInt, MaxInt}

\* ---------------------------------------------------------------- int arithmetic

\* -x in wrapping arithmetic: -MinInt = MinInt
negWrap(x) == IF x = MinInt THEN MinInt ELSE -x

\* a + b in wrapping arithmetic
addWrap(a, b) ==
    IF a > 0 /\ b > 0 /\ b > MaxInt - a THEN (a + MinInt) + (b + MinInt)
    ELSE IF a < 0 /\ b < 0 /\ b < MinInt - a THEN (a - MinInt) + (b - MinInt)
    ELSE a + b

\* The signed word with the 16-bit halves hi and lo
signedWord(hi, lo) == (IF hi >= 32768 THEN hi - 65536 ELSE hi) * 65536 + lo

\* The word of 65536 * cross + 256 * q + r
wordOf(cross, q, r) ==
    signedWord((cross + (q \div 256) + (((q % 256) * 256 + r) \div 65536)) % 65536,
               ((q % 256) * 256 + r) % 65536)

\* a * b in wrapping arithmetic: the product itself while it stays in the
\* word, else composed from the products of the 16-bit halves of a and b
mulWrap(a, b) ==
    IF a > -46341 /\ a < 46341 /\ b > -46341 /\ b < 46341 THEN a * b
    ELSE wordOf((((a \div 65536) * (b % 65536)) % 65536)
                  + (((a % 65536) * (b \div 65536)) % 65536),
                ((a % 65536) \div 256) * (b % 65536),
                ((a % 65536) % 256) * (b % 65536))

\* a / b as Go divides: truncated toward zero (b > 0)
quo(a, b) == IF a >= 0 THEN a \div b ELSE -((-a) \div b)

\* ---------------------------------------------------------------- boards

len(board) == Cardinality(DOMAIN board)

InRange(board, i) == i \in DOMAIN board

place(board, i, mark) == [board EXCEPT ![i] = mark]

BoardsOfLen(l) == [0 .. (l - 1) -> Cells]

emptyBoard(l) == [i \in 0 .. (l - 1) |-> EMPTY]

\* isBoardFull: no cell is empty
isBoardFull(board) == \A i \in DOMAIN board : board[i] # EMPTY

\* getEmptySpots: the indices of the empty cells, ascending; its k-th entry
\* is the empty cell with k - 1 empty cells before it
emptySpotAt(board, k) ==
    CHOOSE i \in DOMAIN board :
        /\ board[i] = EMPTY
        /\ Cardinality({ j \in 0 .. (i - 1) : board[j] = EMPTY }) = k - 1

getEmptySpots(board) ==
    [k \in 1 .. Cardinality({ i \in DOMAIN board : board[i] = EMPTY }) |->
        emptySpotAt(board, k)]

\* ---------------------------------------------------------------- checkWinner (main.go)

\* The result of a call: a returned value, or a run-time panic (index out of range)
Ret(v) == [panic |-> FALSE, ret |-> v]
Panic == [panic |-> TRUE, ret |-> FALSE]

\* The index expression of each of the four scans; a is the outer loop
\* variable, i the inner one.
lineIndex(kind, n, a, i) ==
    CASE kind = "row" -> addWrap(mulWrap(a, n), i)
      [] kind = "col" -> addWrap(mulWrap(i, n), a)
      [] kind = "diag1" -> addWrap(mulWrap(i, n), i)
      [] kind = "diag2" -> addWrap(mulWrap(i, n), n - 1 - i)

\* One iteration of an inner loop: the read of board[idx] panics out of
\* range, breaks on another mark, and otherwise the loop goes on
cellThen(board, player, idx, rest) ==
    IF ~InRange(board, idx) THEN "panic"
    ELSE IF board[idx] # player THEN "nomatch"
    ELSE rest

\* The inner loop from i on: "match", "nomatch" (the break) or "panic"
RECURSIVE lineMatch(_, _, _, _, _, _)
lineMatch(board, player, n, kind, a, i) ==
    IF i >= n THEN "match"
    ELSE cellThen(board, player, lineIndex(kind, n, a, i),
                  lineMatch(board, player, n, kind, a, i + 1))

\* Sequencing of the scans: the first one that matched or panicked decides
orElse(first, second) == IF first # "nomatch" THEN first ELSE second

\* The outer loop over rows or over columns from a on
RECURSIVE scanLines(_, _, _, _, _)
scanLines(board, player, n, kind, a) ==
    IF a >= n THEN "nomatch"
    ELSE orElse(lineMatch(board, player, n, kind, a, 0),
                scanLines(board, player, n, kind, a + 1))

verdict(m) == IF m = "panic" THEN Panic ELSE Ret(m = "match")

checkWinner(board, player, n) ==
    verdict(orElse(scanLines(board, player, n, "row", 0),
            orElse(scanLines(board, player, n, "col", 0),
            orElse(lineMatch(board, player, n, "diag1", 0, 0),
                   lineMatch(board, player, n, "diag2", 0, 0)))))

\* ---------------------------------------------------------------- minimax (main.go)

\* minimaxWinChecker without its last triple, the anti-diagonal
minimaxWinCheckerNoAntiDiagonal(b, p) ==
    \/ (b[0] = p /\ b[1] = p /\ b[2] = p)
    \/ (b[3] = p /\ b[4] = p /\ b[5] = p)
    \/ (b[6] = p /\ b[7] = p /\ b[8] = p)
    \/ (b[0] = p /\ b[3] = p /\ b[6] = p)
    \/ (b[1] = p /\ b[4] = p /\ b[7] = p)
    \/ (b[2] = p /\ b[5] = p /\ b[8] = p)
    \/ (b[0] = p /\ b[4] = p /\ b[8] = p)

minimaxWinChecker(b, p) ==
    \/ (b[0] = p /\ b[1] = p /\ b[2] = p)
    \/ (b[3] = p /\ b[4] = p /\ b[5] = p)
    \/ (b[6] = p /\ b[7] = p /\ b[8] = p)
    \/ (b[0] = p /\ b[3] = p /\ b[6] = p)
    \/ (b[1] = p /\ b[4] = p /\ b[7] = p)
    \/ (b[2] = p /\ b[5] = p /\ b[8] = p)
    \/ (b[0] = p /\ b[4] = p /\ b[8] = p)
    \/ (b[2] = p /\ b[4] = p /\ b[6] = p)

max(a, b) == IF a > b THEN a ELSE b

min(a, b) == IF a < b THEN a ELSE b

\* The loops of minimax fold the values of the moves into best with
\* best = max(best, v), resp. best = min(best, v); values holds the value
\* best starts from and the values of the moves, and the loop ends with the
\* one that absorbs all of them
maxLoop(values) == CHOOSE best \in values : \A v \in values : max(best, v) = best

minLoop(values) == CHOOSE best \in values : \A v \in values : min(best, v) = best

\* The three terminal tests of minimax, in the order of the code
terminalScore(board, depth) ==
    IF minimaxWinChecker(board, AI_O) THEN 10 - depth
    ELSE IF minimaxWinChecker(board, PLAYER_X) THEN depth - 10
    ELSE 0

\* minimax; inf is the build's int(math.Inf(1)), from which (negated, for
\* the maximizer) best starts
RECURSIVE minimax(_, _, _, _)
minimax(board, depth, isMaximizing, inf) ==
    IF \/ minimaxWinChecker(board, AI_O)
       \/ minimaxWinChecker(board, PLAYER_X)
       \/ isBoardFull(board)
    THEN terminalScore(board, depth)
    ELSE IF isMaximizing
    THEN maxLoop({negWrap(inf)} \cup
                 { minimax(place(board, i, AI_O), depth + 1, FALSE, inf) :
                     i \in { j \in 0 .. 8 : board[j] = EMPTY } })
    ELSE minLoop({inf} \cup
                 { minimax(place(board, i, PLAYER_X), depth + 1, TRUE, inf) :
                     i \in { j \in 0 .. 8 : board[j] = EMPTY } })

\* The root loop of findBestMoveMinimax from cell i on, and its comparison
\* of a move's value with the best so far
RECURSIVE rootLoop(_, _, _, _, _)
RECURSIVE rootPick(_, _, _, _, _, _)
rootLoop(board, inf, i, bestVal, bestMove) ==
    IF i >= 9 THEN bestMove
    ELSE IF board[i] = EMPTY
         THEN rootPick(board, inf, i, bestVal, bestMove,
                       minimax(place(board, i, AI_O), 0, FALSE, inf))
         ELSE rootLoop(board, inf, i + 1, bestVal, bestMove)

rootPick(board, inf, i, bestVal, bestMove, moveVal) ==
    IF moveVal > bestVal
    THEN rootLoop(board, inf, i + 1, moveVal, i)
    ELSE rootLoop(board, inf, i + 1, bestVal, bestMove)

findBestMoveMinimax(board, inf) == rootLoop(board, inf, 0, negWrap(inf), -1)

\* ---------------------------------------------------------------- heuristic (main.go)

\* What a selector call ends in: a returned index, or a panic
Move(i) == [panic |-> FALSE, move |-> i]
PanicMove == [panic |-> TRUE, move |-> -1]

NotFound == [panic |-> FALSE, found |-> FALSE, move |-> -1]
Found(i) == [panic |-> FALSE, found |-> TRUE, move |-> i]
PanicFound == [panic |-> TRUE, found |-> FALSE, move |-> -1]

\* The iteration that ends a loop of rule 1 or 2, on the result cw of its
\* call of checkWinner: a panic, or the return of the move
winStep(cw, move) == IF cw.panic THEN PanicFound ELSE Found(move)

\* The positions in emptySpots where a loop of rule 1 or 2 ends if it gets
\* there: checkWinner on the copy with mark placed returns true, or panics
endingSpots(board, spots, mark, n) ==
    { k \in 1 .. Len(spots) : checkWinner(place(board, spots[k], mark), mark, n) # Ret(FALSE) }

\* The loop ends at the first of them
firstEnding(board, spots, mark, n, k) ==
    winStep(checkWinner(place(board, spots[k], mark), mark, n), spots[k])

firstOf(board, spots, mark, n, ends) ==
    IF ends = {} THEN NotFound
    ELSE firstEnding(board, spots, mark, n,
                     CHOOSE k \in ends : \A other \in ends : k <= other)

\* The loops of rules 1 and 2 over emptySpots: the first spot where placing
\* mark makes checkWinner true
firstWinning(board, spots, mark, n) ==
    firstOf(board, spots, mark, n, endingSpots(board, spots, mark, n))

\* The loop of rule 4 over the shuffled corners order[k..]
RECURSIVE firstEmptyCorner(_, _, _)
firstEmptyCorner(board, order, k) ==
    IF k > Len(order) THEN NotFound
    ELSE IF ~InRange(board, order[k]) THEN PanicFound
    ELSE IF board[order[k]] = EMPTY THEN Found(order[k])
    ELSE firstEmptyCorner(board, order, k + 1)

cornersOf(n) == <<0, addWrap(n, -1), mulWrap(n, addWrap(n, -1)), addWrap(mulWrap(n, n), -1)>>

\* rand.Shuffle: every order of the four corners is a possible outcome
Shuffles(corners) ==
    { [k \in 1 .. 4 |-> corners[p[k]]] :
        p \in { q \in [1 .. 4 -> 1 .. 4] : \A i, j \in 1 .. 4 : q[i] = q[j] => i = j } }

\* A rule returns its move if it found one, else the next rule decides
orMove(f, rest) ==
    IF f.panic THEN {PanicMove}
    ELSE IF f.found THEN {Move(f.move)}
    ELSE rest

\* Rules 3 to 5: the centre, a corner in shuffled order, any empty spot
\* (rand.Intn: every spot is a possible outcome)
centerOrCorner(board, n, emptySpots, centerIdx) ==
    IF ~InRange(board, centerIdx) THEN {PanicMove}
    ELSE IF board[centerIdx] = EMPTY THEN {Move(centerIdx)}
    ELSE UNION { orMove(firstEmptyCorner(board, order, 1),
                        { Move(emptySpots[k]) : k \in 1 .. Len(emptySpots) })
                 : order \in Shuffles(cornersOf(n)) }

\* The rules with the block tried before the win
rulesBlockFirst(board, n, emptySpots) ==
    IF Len(emptySpots) = 0 THEN {Move(-1)}
    ELSE orMove(firstWinning(board, emptySpots, PLAYER_X, n),
         orMove(firstWinning(board, emptySpots, AI_O, n),
                centerOrCorner(board, n, emptySpots, quo(mulWrap(n, n), 2))))

\* Rules 1 to 5 on the empty spots
rules(board, n, emptySpots) ==
    IF Len(emptySpots) = 0 THEN {Move(-1)}
    ELSE orMove(firstWinning(board, emptySpots, AI_O, n),
         orMove(firstWinning(board, emptySpots, PLAYER_X, n),
                centerOrCorner(board, n, emptySpots, quo(mulWrap(n, n), 2))))

\* findBestMoveHeuristic: the set of results the call can have, one for each
\* outcome of rand.Shuffle and rand.Intn
findBestMoveHeuristic(board, n) == rules(board, n, getEmptySpots(board))

\* ---------------------------------------------------------------- aiMove (main.go)

\* The selector aiMove routes to; the 3 x 3 search reads cells 0..8
selectMove(board, n, inf) ==
    IF n = 3
    THEN IF len(board) < 9 THEN {PanicMove} ELSE {Move(findBestMoveMinimax(board, inf))}
    ELSE findBestMoveHeuristic(board, n)

\* aiMove: the boards it can leave, each with the selector's result
aiMove(board, n, inf) ==
    { IF m.panic THEN [panic |-> TRUE, board |-> board, bestMove |-> m.move]
      ELSE IF m.move = -1 THEN [panic |-> FALSE, board |-> board, bestMove |-> m.move]
      ELSE IF ~InRange(board, m.move)
           THEN [panic |-> TRUE, board |-> board, bestMove |-> m.move]
      ELSE IF board[m.move] = EMPTY
           THEN [panic |-> FALSE, board |-> place(board, m.move, AI_O), bestMove |-> m.move]
      ELSE [panic |-> FALSE, board |-> board, bestMove |-> m.move]
      : m \in selectMove(board, n, inf) }

\* ---------------------------------------------------------------- playHandler (main.go)

NoBoard == emptyBoard(0)

\* A response without a GameState body: an error, or the bare 200 of OPTIONS
Bare(status) ==
    [status |-> status, body |-> FALSE, panic |-> FALSE,
     board |-> NoBoard, boardSize |-> 0, winner |-> ""]

\* The handler died in a run-time panic: no response is written
Aborted ==
    [status |-> 0, body |-> FALSE, panic |-> TRUE,
     board |-> NoBoard, boardSize |-> 0, winner |-> ""]

\* The encoded GameState
Encoded(board, n, winner) ==
    [status |-> 200, body |-> TRUE, panic |-> FALSE,
     board |-> board, boardSize |-> n, winner |-> winner]

Trace(evaluator, selector, bestMove) ==
    [evaluator |-> evaluator, selector |-> selector, bestMove |-> bestMove]

\* The second evaluation, on the board aiMove left: mv is aiMove's outcome
\* and oWon the result of checkWinner for the AI
afterMove(state, mv, oWon) ==
    IF oWon.panic THEN <<Aborted, Trace(TRUE, TRUE, mv.bestMove)>>
    ELSE <<Encoded(mv.board, state.boardSize,
                   IF oWon.ret THEN AI_O
                   ELSE IF isBoardFull(mv.board) THEN "draw"
                   ELSE state.winner),
           Trace(TRUE, TRUE, mv.bestMove)>>

\* The game logic given the result xWon of checkWinner for the player
evaluate(state, inf, xWon) ==
    IF xWon.panic THEN {<<Aborted, Trace(TRUE, FALSE, -1)>>}
    ELSE IF xWon.ret
         THEN {<<Encoded(state.board, state.boardSize, PLAYER_X), Trace(TRUE, FALSE, -1)>>}
    ELSE IF isBoardFull(state.board)
         THEN {<<Encoded(state.board, state.boardSize, "draw"), Trace(TRUE, FALSE, -1)>>}
    ELSE { IF mv.panic THEN <<Aborted, Trace(TRUE, TRUE, mv.bestMove)>>
           ELSE afterMove(state, mv, checkWinner(mv.board, AI_O, state.boardSize))
           : mv \in aiMove(state.board, state.boardSize, inf) }

\* The game logic of playHandler on a validated state: the set of
\* <<response, trace>> pairs it can end in
gameLogic(state, inf) ==
    evaluate(state, inf, checkWinner(state.board, PLAYER_X, state.boardSize))

\* playHandler on a request
handle(r, inf) ==
    IF r.method = "OPTIONS" THEN {<<Bare(200), Trace(FALSE, FALSE, -1)>>}
    ELSE IF r.method # "POST" THEN {<<Bare(405), Trace(FALSE, FALSE, -1)>>}
    ELSE IF r.malformed THEN {<<Bare(400), Trace(FALSE, FALSE, -1)>>}
    ELSE IF r.boardSize = 0 \/ len(r.board) # mulWrap(r.boardSize, r.boardSize)
         THEN {<<Bare(400), Trace(FALSE, FALSE, -1)>>}
    ELSE gameLogic(r, inf)

playHandler ==
    /\ pc = "pending"
    /\ \E o \in handle(req, build) :
         /\ resp' = o[1]
         /\ trace' = o[2]
    /\ pc' = "done"
    /\ UNCHANGED <<build, req, out>>

\* ---------------------------------------------------------------- fixed 3 x 3 server

winConditions ==
    << <<0, 1, 2>>, <<3, 4, 5>>, <<6, 7, 8>>,
       <<0, 3, 6>>, <<1, 4, 7>>, <<2, 5, 8>>,
       <<0, 4, 8>>, <<2, 4, 6>> >>

checkWinnerFixed(board, player) ==
    \E k \in 1 .. Len(winConditions) :
        /\ board[winConditions[k][1]] = player
        /\ board[winConditions[k][2]] = player
        /\ board[winConditions[k][3]] = player

\* Loops 1 and 2 of aiMove from cell i on: the first empty cell where placing
\* mark wins, or -1
RECURSIVE firstWinningFixed(_, _, _)
firstWinningFixed(board, mark, i) ==
    IF i >= 9 THEN -1
    ELSE IF board[i] = EMPTY /\ checkWinnerFixed(place(board, i, mark), mark) THEN i
    ELSE firstWinningFixed(board, mark, i + 1)

\* Loop 5: the first empty cell, or -1
RECURSIVE firstEmptyFixed(_, _)
firstEmptyFixed(board, i) ==
    IF i >= 9 THEN -1
    ELSE IF board[i] = EMPTY THEN i
    ELSE firstEmptyFixed(board, i + 1)

\* aiMove of the fixed server: the boards it can leave, one for each outcome
\* of rand.Shuffle
aiMoveFixed(board) ==
    LET win == firstWinningFixed(board, AI_O, 0)
        block == firstWinningFixed(board, PLAYER_X, 0)
        any == firstEmptyFixed(board, 0)
    IN  IF win # -1 THEN {place(board, win, AI_O)}
        ELSE IF block # -1 THEN {place(board, block, AI_O)}
        ELSE IF board[4] = EMPTY THEN {place(board, 4, AI_O)}
        ELSE { LET c == firstEmptyCorner(board, order, 1)
               IN  IF c.found THEN place(board, c.move, AI_O)
                   ELSE IF any # -1 THEN place(board, any, AI_O)
                   ELSE board
               : order \in Shuffles(<<0, 2, 6, 8>>) }

\* The game logic of the fixed server's playHandler: the responses it can write
handleFixed(r) ==
    IF r.method = "OPTIONS" THEN {Bare(200)}
    ELSE IF r.method # "POST" THEN {Bare(405)}
    ELSE IF r.malformed THEN {Bare(400)}
    ELSE IF checkWinnerFixed(r.board, PLAYER_X) THEN {Encoded(r.board, 0, PLAYER_X)}
    ELSE IF isBoardFull(r.board) THEN {Encoded(r.board, 0, "draw")}
    ELSE { Encoded(b, 0,
                   IF checkWinnerFixed(b, AI_O) THEN AI_O
                   ELSE IF isBoardFull(b) THEN "draw"
                   ELSE r.winner)
           : b \in aiMoveFixed(r.board) }

playHandlerFixed ==
    /\ pc = "pending"
    /\ resp' \in handleFixed(req)
    /\ trace' = Trace(req.method = "POST" /\ ~req.malformed,
                      req.method = "POST" /\ ~req.malformed
                        /\ ~checkWinnerFixed(req.board, PLAYER_X)
                        /\ ~isBoardFull(req.board),
                      -1)
    /\ pc' = "done"
    /\ UNCHANGED <<build, req, out>>

\* ---------------------------------------------------------------- clients

Post(board, n, winner) ==
    [method |-> "POST", malformed |-> FALSE, board |-> board, boardSize |-> n,
     winner |-> winner]

NoRequest == [method |-> "", malformed |-> FALSE, board |-> NoBoard, boardSize |-> 0,
              winner |-> ""]

NoOut == [fn |-> "", mark |-> "", ret |-> <<>>]

\* The largest number of marked cells outside the corners and the centre in
\* the boards larger than 3 x 3 that the model submits
MaxExtra == 1

specialCells(n) == {0, n - 1, n * (n - 1), n * n - 1, (n * n) \div 2}

\* The ways to mark at most MaxExtra of the cells of others
ExtraMarks(others) ==
    UNION { [S -> {PLAYER_X, AI_O}] : S \in { T \in SUBSET others : Cardinality(T) <= MaxExtra } }

\* The board of l cells with the marks of s and of e, and empty elsewhere
overlay(l, s, e) ==
    [i \in 0 .. (l - 1) |->
        IF i \in DOMAIN s THEN s[i] ELSE IF i \in DOMAIN e THEN e[i] ELSE EMPTY]

\* The boards of side n with at most MaxExtra marks outside the special cells
BoundedBoards(n) ==
    { overlay(n * n, s, e) :
        s \in [specialCells(n) -> Cells],
        e \in ExtraMarks((0 .. (n * n - 1)) \ specialCells(n)) }

RequestBoards ==
    BoardsOfLen(0) \cup BoardsOfLen(1) \cup BoardsOfLen(4) \cup BoardsOfLen(9)
      \cup BoundedBoards(4)

\* boardSize values: the sizes played, zero (also a missing field), negative
\* values, and values whose square leaves the word
RequestSizes == {-3, -2, -1, 0, 1, 2, 3, 4, 65536, MaxInt}

RequestWinners == {"", PLAYER_X}

\* Boards short enough to be posted with every boardSize, matching or not
ShortBoards == BoardsOfLen(0) \cup BoardsOfLen(1) \cup BoardsOfLen(4)

\* A client sends a request: a POST with a decodable body (any short board
\* with any boardSize and winner field; any longer board with the boardSize
\* values the length check lets through and no winner), or a request the
\* handler turns away before decoding (another method, an undecodable body)
Submit ==
    /\ pc = "idle"
    /\ \/ \E n \in RequestSizes, b \in RequestBoards, w \in RequestWinners :
            /\ b \in ShortBoards \/ (len(b) = mulWrap(n, n) /\ w = "")
            /\ req' = Post(b, n, w)
       \/ req' \in {[NoRequest EXCEPT !.method = "GET"],
                    [NoRequest EXCEPT !.method = "OPTIONS"],
                    [NoRequest EXCEPT !.method = "POST", !.malformed = TRUE]}
    /\ pc' = "pending"
    /\ UNCHANGED <<build, resp, trace, out>>

\* A 3 x 3 game starts from the empty board: the AI moves first (the empty
\* board is posted) or the human does (the board with one X is posted)
StartGame ==
    /\ pc = "idle"
    /\ req' \in {Post(emptyBoard(9), 3, "")}
                  \cup { Post(place(emptyBoard(9), i, PLAYER_X), 3, "") : i \in 0 .. 8 }
    /\ pc' = "pending"
    /\ UNCHANGED <<build, resp, trace, out>>

\* The human answers the AI's reply: X on an empty cell of the returned
\* board, posted back while the response names no winner
HumanMove ==
    /\ pc = "done"
    /\ resp.body
    /\ resp.winner = ""
    /\ \E i \in DOMAIN resp.board :
         /\ resp.board[i] = EMPTY
         /\ req' = Post(place(resp.board, i, PLAYER_X), req.boardSize, resp.winner)
    /\ pc' = "pending"
    /\ UNCHANGED <<build, resp, trace, out>>

\* ---------------------------------------------------------------- the functions on their own

Applied(fn, mark, ret) == [fn |-> fn, mark |-> mark, ret |-> ret]

\* checkWinner of main.go applied to the drawn board for either mark
callCheckWinner ==
    /\ pc = "idle"
    /\ \E mark \in {PLAYER_X, AI_O} :
         out' = Applied("checkWinner", mark, checkWinner(req.board, mark, req.boardSize))
    /\ pc' = "done"
    /\ UNCHANGED <<build, req, resp, trace>>

\* The three win checkers applied to the same 3 x 3 board and mark
callCheckers ==
    /\ pc = "idle"
    /\ req.boardSize = 3
    /\ \E mark \in {PLAYER_X, AI_O} :
         out' = Applied("checkers", mark,
                        [generic |-> checkWinner(req.board, mark, 3),
                         hardcoded |-> minimaxWinChecker(req.board, mark),
                         fixed |-> checkWinnerFixed(req.board, mark)])
    /\ pc' = "done"
    /\ UNCHANGED <<build, req, resp, trace>>

\* findBestMoveHeuristic applied to the drawn board
callHeuristic ==
    /\ pc = "idle"
    /\ \E m \in findBestMoveHeuristic(req.board, req.boardSize) :
         out' = Applied("heuristic", AI_O, m)
    /\ pc' = "done"
    /\ UNCHANGED <<build, req, resp, trace>>

\* The boardSize values of the boards the win checkers are applied to: the
\* non-zero values n with len(board) = n * n, negative ones included
WinSizes == {-3, -2, -1, 1, 2, 3}

\* The sides of the boards the heuristic is applied to
HeurSizes == {1, 2, 4}

\* ---------------------------------------------------------------- specifications

Init ==
    /\ build \in InfConversions
    /\ pc = "idle"
    /\ req = NoRequest
    /\ resp = Bare(0)
    /\ trace = Trace(FALSE, FALSE, -1)
    /\ out = NoOut

\* The N x N server under arbitrary requests
Next == Submit \/ playHandler
Spec == Init /\ [][Next]_vars

\* The N x N server playing 3 x 3 games
NextGame == StartGame \/ HumanMove \/ playHandler
SpecGame == Init /\ [][NextGame]_vars

\* The fixed server playing games
NextFixed == StartGame \/ HumanMove \/ playHandlerFixed
SpecFixed == Init /\ [][NextFixed]_vars

\* The win checkers on drawn boards
InitWin ==
    /\ build \in InfConversions
    /\ pc = "idle"
    /\ \E n \in WinSizes : req \in { Post(b, n, "") : b \in BoardsOfLen(n * n) }
    /\ resp = Bare(0)
    /\ trace = Trace(FALSE, FALSE, -1)
    /\ out = NoOut
NextWin == callCheckWinner \/ callCheckers
SpecWin == InitWin /\ [][NextWin]_vars

\* The heuristic selector on drawn boards (it does not read the build's
\* conversion, which is held at one value)
InitHeur ==
    /\ build = MaxInt
    /\ pc = "idle"
    /\ \E n \in HeurSizes : req \in { Post(b, n, "") : b \in BoundedBoards(n) }
    /\ resp = Bare(0)
    /\ trace = Trace(FALSE, FALSE, -1)
    /\ out = NoOut
NextHeur == callHeuristic
SpecHeur == InitHeur /\ [][NextHeur]_vars

\* ---------------------------------------------------------------- lines of a board

\* The side of a square board
IsSquare(board) == \E s \in 0 .. len(board) : s * s = len(board)
side(board) == CHOOSE s \in 0 .. len(board) : s * s = len(board)

\* The full lines of a board of side s, as sets of cells: rows, columns and
\* the two diagonals
LinesOf(s) ==
    { { r * s + c : c \in 0 .. (s - 1) } : r \in 0 .. (s - 1) }
      \cup { { r * s + c : r \in 0 .. (s - 1) } : c \in 0 .. (s - 1) }
      \cup (IF s >= 1
            THEN { { i * s + i : i \in 0 .. (s - 1) },
                   { i * s + (s - 1 - i) : i \in 0 .. (s - 1) } }
            ELSE {})

\* Some full line of the board consists entirely of mark
HasLine(board, mark) ==
    /\ IsSquare(board)
    /\ \E L \in LinesOf(side(board)) : \A i \in L : board[i] = mark

EmptyCells(board) == { i \in DOMAIN board : board[i] = EMPTY }

Lowest(S) == CHOOSE i \in S : \A j \in S : i <= j

\* Cell i is the one cell missing from a line otherwise held by mark
Completes(board, i, mark) ==
    /\ board[i] = EMPTY
    /\ \E L \in LinesOf(side(board)) : i \in L /\ \A j \in L \ {i} : board[j] = mark

\* With mark on cell i the board holds a full line of mark
MakesLine(board, i, mark) ==
    /\ board[i] = EMPTY
    /\ HasLine(place(board, i, mark), mark)

\* The request got past the handler's checks of method, body and length
Validated ==
    /\ req.method = "POST"
    /\ ~req.malformed
    /\ req.boardSize # 0
    /\ len(req.board) = mulWrap(req.boardSize, req.boardSize)

\* ---------------------------------------------------------------- claims

\* C1: in every 3 x 3 game against the minimax selector that starts from the
\* empty board and alternates a human X with the AI's reply (human or AI
\* first), no board posted or returned holds a full line of X.
C1_MinimaxNeverLoses ==
    /\ ~HasLine(req.board, PLAYER_X)
    /\ ~HasLine(resp.board, PLAYER_X)

\* C2: in every game against the fixed 3 x 3 server, for every outcome of the
\* corner shuffle, the human never completes a full line of X.
C2_FixedNeverLoses ==
    pc \in {"pending", "done"} => ~HasLine(req.board, PLAYER_X)

\* C3: for a validated POST, a board with a full line of X or without an
\* empty cell comes back unchanged and the selector is not invoked; otherwise
\* the returned board is the posted board with O on exactly one cell that was
\* empty, the cell the selector returned (never -1).
C3_ExactlyOneMove ==
    (pc = "done" /\ Validated) =>
        /\ resp.body
        /\ IF HasLine(req.board, PLAYER_X) \/ EmptyCells(req.board) = {}
           THEN resp.board = req.board /\ ~trace.selector
           ELSE /\ trace.selector
                /\ trace.bestMove \in EmptyCells(req.board)
                /\ resp.board = place(req.board, trace.bestMove, AI_O)

\* The winner the boards alone determine
C4_Expected ==
    IF HasLine(req.board, PLAYER_X) THEN PLAYER_X
    ELSE IF EmptyCells(req.board) = {} THEN "draw"
    ELSE IF HasLine(resp.board, AI_O) THEN AI_O
    ELSE IF EmptyCells(resp.board) = {} THEN "draw"
    ELSE ""

\* C4: for a validated POST, whatever winner field the request carries, the
\* response winner is X exactly when the posted board has a full line of X,
\* else draw when it has no empty cell, else, after the AI's move, O exactly
\* when the returned board has a full line of O, else draw when it is full,
\* else "".
C4_WinnerFromBoard ==
    (pc = "done" /\ Validated) => (resp.body /\ resp.winner = C4_Expected)

\* C5: for every board and every non-zero n with len(board) = n * n, negative
\* n included, and either mark, checkWinner returns true if and only if some
\* full row, column or diagonal of the board consists entirely of the mark.
C5_CheckWinnerIff ==
    out.fn = "checkWinner" =>
        /\ ~out.ret.panic
        /\ out.ret.ret = HasLine(req.board, out.mark)

\* The value findBestMoveMinimax gives to O on cell i
C6_Score(i) == minimax(place(req.board, i, AI_O), 0, FALSE, build)

\* C6: on a 3 x 3 board without a full line and with an empty cell, the
\* minimax selector returns the lowest cell that completes a line of O if
\* there is one (the winner is then O); else, if exactly one cell would
\* complete a line of X, that cell; and always the lowest cell among those of
\* maximal score.
C6_WinThenBlock ==
    (/\ pc = "done" /\ Validated /\ req.boardSize = 3
     /\ ~HasLine(req.board, PLAYER_X) /\ ~HasLine(req.board, AI_O)
     /\ EmptyCells(req.board) # {}) =>
        LET wins == { i \in EmptyCells(req.board) : Completes(req.board, i, AI_O) }
            blocks == { i \in EmptyCells(req.board) : Completes(req.board, i, PLAYER_X) }
        IN  /\ trace.selector
            /\ wins # {} => (trace.bestMove = Lowest(wins) /\ resp.winner = AI_O)
            /\ (wins = {} /\ Cardinality(blocks) = 1) =>
                   (trace.bestMove \in blocks /\ resp.winner # AI_O)
            /\ trace.bestMove =
                   Lowest({ i \in EmptyCells(req.board) :
                              \A j \in EmptyCells(req.board) : C6_Score(i) >= C6_Score(j) })

\* The corners of a board of side n
C7_Corners(n) == {0, n - 1, n * (n - 1), n * n - 1}

\* The moves the rule order allows, given the cells rule 1 (wins) and rule 2
\* (blocks) apply to
C7_Allowed(board, n, wins, blocks) ==
    IF wins # {} THEN {Lowest(wins)}
    ELSE IF blocks # {} THEN {Lowest(blocks)}
    ELSE IF board[(n * n) \div 2] = EMPTY THEN {(n * n) \div 2}
    ELSE IF C7_Corners(n) \cap EmptyCells(board) # {}
         THEN C7_Corners(n) \cap EmptyCells(board)
    ELSE EmptyCells(board)

\* C7 as amended: on every N x N board, N # 3, with an empty cell, the
\* heuristic returns an empty cell, the move of the first applicable rule:
\* (1) the lowest empty cell with O on which the board holds a full line of O
\* (whether or not X threatens), (2) else the lowest empty cell with X on
\* which it holds a full line of X, (3) else cell N*N/2 if empty, (4) else an
\* empty corner, (5) else some empty cell.
C7_RuleOrder ==
    (out.fn = "heuristic" /\ EmptyCells(req.board) # {}) =>
        /\ ~out.ret.panic
        /\ out.ret.move \in EmptyCells(req.board)
        /\ out.ret.move \in
             C7_Allowed(req.board, req.boardSize,
                        { i \in EmptyCells(req.board) : MakesLine(req.board, i, AI_O) },
                        { i \in EmptyCells(req.board) : MakesLine(req.board, i, PLAYER_X) })

\* C7 as stated: rules 1 and 2 take the lowest empty cell that completes a
\* line of O, respectively of X.
C7_RuleOrderCompleting ==
    (out.fn = "heuristic" /\ EmptyCells(req.board) # {}) =>
        /\ ~out.ret.panic
        /\ out.ret.move \in EmptyCells(req.board)
        /\ out.ret.move \in
             C7_Allowed(req.board, req.boardSize,
                        { i \in EmptyCells(req.board) : Completes(req.board, i, AI_O) },
                        { i \in EmptyCells(req.board) : Completes(req.board, i, PLAYER_X) })

\* A 4 x 4 board where O can complete a line and X threatens another: the
\* heuristic takes the win
C7_Witness ==
    /\ out.fn = "heuristic"
    /\ req.boardSize = 4
    /\ ~HasLine(req.board, AI_O) /\ ~HasLine(req.board, PLAYER_X)
    /\ \E i \in EmptyCells(req.board) : Completes(req.board, i, PLAYER_X)
    /\ \E i \in EmptyCells(req.board) :
         /\ Completes(req.board, i, AI_O)
         /\ \A j \in EmptyCells(req.board) : Completes(req.board, j, AI_O) => i <= j
         /\ out.ret.move = i

\* What a request turned away leaves: no GameState, no evaluator or selector run
C8_Untouched == ~resp.body /\ ~trace.evaluator /\ ~trace.selector

\* l is the square of n
C8_IsSquareOf(l, n) == \E k \in 0 .. l : k * k = l /\ (n = k \/ n = -k)

\* C8: a method other than POST and OPTIONS is answered 405, OPTIONS 200
\* without a body, a POST whose board length differs from boardSize squared
\* (or whose boardSize is 0 or missing) 400; in each case neither the
\* evaluator nor the selector runs and no board or winner is returned.
C8_RejectionFirst ==
    pc = "done" =>
        /\ req.method \notin {"POST", "OPTIONS"} => (resp.status = 405 /\ C8_Untouched)
        /\ req.method = "OPTIONS" => (resp.status = 200 /\ C8_Untouched)
        /\ (/\ req.method = "POST" /\ ~req.malformed
            /\ (req.boardSize = 0 \/ ~C8_IsSquareOf(len(req.board), req.boardSize))) =>
               (resp.status = 400 /\ C8_Untouched)

\* C9: on every 3 x 3 board and for either mark, minimaxWinChecker,
\* checkWinner with n = 3 and the fixed server's checkWinner return the same
\* boolean.
C9_CheckersAgree ==
    out.fn = "checkers" =>
        /\ out.ret.generic = Ret(out.ret.hardcoded)
        /\ out.ret.hardcoded = out.ret.fixed

\* The three checkers applied to a board whose only line of O is the
\* anti-diagonal, and all reporting it
C9_Witness ==
    /\ out.fn = "checkers"
    /\ out.mark = AI_O
    /\ \A i \in 0 .. 8 : req.board[i] = AI_O <=> i \in {2, 4, 6}
    /\ out.ret.generic = Ret(TRUE) /\ out.ret.hardcoded /\ out.ret.fixed

\* C10: every request that passes the check boardSize # 0 and
\* len(board) = boardSize * boardSize (in wrapping arithmetic) is served
\* without an out-of-range board access.
C10_AccessesInRange ==
    (pc = "done" /\ Validated) => ~resp.panic
====
